---------------------------- MODULE Spec2Model ----------------------------
(***************************************************************************)
(* The error-classification engine of the DeFi transaction-failure agent:  *)
(* the module-level pattern catalog ERROR_PATTERNS, detectErrorCategory    *)
(* (the spec's classify) and buildTransactionContext (the spec's           *)
(* normalize).  Both functions are synchronous, so the calls of all their  *)
(* callers (the CLI, the HTTP server's request handlers) happen one after  *)
(* another, in any order: the model's steps are that sequence of calls.    *)
(* diagnoseTxFailure, batchAnalyze and the POST /batch handler are         *)
(* asynchronous: each runs up to its next await in one step, and resumes   *)
(* when the awaited model request is answered or rejected.                 *)
(*                                                                         *)
(* JavaScript values are tagged records; strings are TLA+ strings, read    *)
(* character by character with Len and SubSeq.  Arrays that the code       *)
(* shares by reference live in a heap, so that aliasing between a result   *)
(* and the catalog is visible.                                             *)
(***************************************************************************)
EXTENDS Integers, Sequences, FiniteSets, TLC

VARIABLES
    heap,    \* address -> contents of the array object stored there
    txData,  \* the record of the current request (field name -> value)
    call,    \* the last completed call on txData: operation, clock read, outcome
    now,     \* the wall clock, in seconds after ClockEpoch
    edits,   \* how many times a caller has modified a result it received
    kept,    \* an earlier call a caller remembers: its record and its outcome
    \* Per request or call q in progress (functions on Reqs):
    kind,    \* what q is: "batch" (POST /batch), "diagnose" (POST /diagnose),
             \* "interactive" (interactiveDiagnosis), "none"
    body,    \* q's input: req.body.transactions, req.body, or txData
    hpc,     \* where q's handler is: "idle", "running", "settled" (the
             \* awaited batchAnalyze has ended), "responded"
    response,\* the HTTP response sent, or what interactiveDiagnosis returned
    results, \* batchAnalyze's results array
    bres,    \* how batchAnalyze ended
    dpc,     \* the model request diagnoseTxFailure awaits (0: none)
    history, \* diagnoseTxFailure's conversationHistory
    sent,    \* the model requests of the current diagnosis: their messages
    dres     \* how the last diagnoseTxFailure call ended

batchVars == <<kind, body, hpc, response, results, bres, dpc, history, sent, dres>>

vars == <<heap, txData, call, now, edits, kept, batchVars>>

-----------------------------------------------------------------------------
(* Bounds of the model.                                                    *)

MaxClock == 1

MaxEdits == 1

-----------------------------------------------------------------------------
(* JavaScript values.                                                      *)

Undefined == [t |-> "undefined"]

Null == [t |-> "null"]

Str(s) == [t |-> "string", v |-> s]

Num(n) == [t |-> "number", v |-> n]

Bool(b) == [t |-> "boolean", v |-> b]

Arr(elems) == [t |-> "array", v |-> elems]

Obj(props) == [t |-> "object", v |-> props]

NoProps == [p \in {} |-> Undefined]

\* ToBoolean, as the || operator applies it.
Truthy(x) ==
    CASE x.t = "undefined" -> FALSE
      [] x.t = "null"      -> FALSE
      [] x.t = "string"    -> x.v # ""
      [] x.t = "number"    -> x.v # 0
      [] x.t = "boolean"   -> x.v
      [] OTHER             -> TRUE

\* a || b
Or(a, b) == IF Truthy(a) THEN a ELSE b

\* The record with the properties of g, those set to undefined left out.
Rec(g) == [f \in {x \in DOMAIN g : g[x] # Undefined} |-> g[f]]

\* txData.f: an absent property reads as undefined.
Get(o, f) == IF f \in DOMAIN o THEN o[f] ELSE Undefined

-----------------------------------------------------------------------------
(* Strings.                                                                *)

Digits == <<"0", "1", "2", "3", "4", "5", "6", "7", "8", "9">>

RECURSIVE NumberToString(_)
NumberToString(n) ==
    IF n < 10 THEN Digits[n + 1]
    ELSE NumberToString(n \div 10) \o Digits[(n % 10) + 1]

UpperToLower ==
    [c \in {"A", "B", "C", "D", "E", "F", "G", "H", "I", "J", "K", "L", "M",
            "N", "O", "P", "Q", "R", "S", "T", "U", "V", "W", "X", "Y", "Z"} |->
        CASE c = "A" -> "a" [] c = "B" -> "b" [] c = "C" -> "c" [] c = "D" -> "d"
          [] c = "E" -> "e" [] c = "F" -> "f" [] c = "G" -> "g" [] c = "H" -> "h"
          [] c = "I" -> "i" [] c = "J" -> "j" [] c = "K" -> "k" [] c = "L" -> "l"
          [] c = "M" -> "m" [] c = "N" -> "n" [] c = "O" -> "o" [] c = "P" -> "p"
          [] c = "Q" -> "q" [] c = "R" -> "r" [] c = "S" -> "s" [] c = "T" -> "t"
          [] c = "U" -> "u" [] c = "V" -> "v" [] c = "W" -> "w" [] c = "X" -> "x"
          [] c = "Y" -> "y" [] c = "Z" -> "z"]

RECURSIVE LowerFrom(_, _)
LowerFrom(s, i) ==
    IF i > Len(s) THEN ""
    ELSE LET c == SubSeq(s, i, i)
         IN  (IF c \in DOMAIN UpperToLower THEN UpperToLower[c] ELSE c)
                 \o LowerFrom(s, i + 1)

\* String.prototype.toLowerCase, on ASCII text.
toLowerCase(s) == LowerFrom(s, 1)

\* String.prototype.includes: p occurs at some position of s.
includes(s, p) ==
    \E i \in 1..(Len(s) - Len(p) + 1) : SubSeq(s, i, i + Len(p) - 1) = p

-----------------------------------------------------------------------------
(* String conversion inside Array.prototype.join.  The values of a record  *)
(* are data (as JSON.parse builds them), so no property is callable.       *)

RECURSIVE ToStrThrows(_)
\* ToString raises TypeError for an object whose own toString is not
\* callable: Object.prototype.valueOf then returns the object itself.
ToStrThrows(x) ==
    CASE x.t = "object" -> "toString" \in DOMAIN x.v
      [] x.t = "array"  -> \E i \in DOMAIN x.v : ToStrThrows(x.v[i])
      [] OTHER          -> FALSE

RECURSIVE ToStr(_)
RECURSIVE JoinFrom(_, _, _)
\* elems[i] sep elems[i+1] sep ...; null and undefined elements give "".
JoinFrom(elems, i, sep) ==
    IF i > Len(elems) THEN ""
    ELSE (IF elems[i].t \in {"undefined", "null"} THEN "" ELSE ToStr(elems[i]))
             \o (IF i < Len(elems) THEN sep \o JoinFrom(elems, i + 1, sep) ELSE "")

ToStr(x) ==
    CASE x.t = "string"    -> x.v
      [] x.t = "number"    -> NumberToString(x.v)
      [] x.t = "boolean"   -> IF x.v THEN "true" ELSE "false"
      [] x.t = "undefined" -> "undefined"
      [] x.t = "null"      -> "null"
      [] x.t = "array"     -> JoinFrom(x.v, 1, ",")
      [] OTHER             -> "[object Object]"

\* Array.prototype.join
join(elems, sep) == JoinFrom(elems, 1, sep)

-----------------------------------------------------------------------------
(* The Error Pattern Library, as the module-level literal writes it.       *)

ERROR_PATTERNS ==
    << [key |-> "OUT_OF_GAS",
        patterns |-> <<"out of gas", "gas required exceeds allowance",
                       "intrinsic gas too low">>,
        category |-> "Gas Error"],
       [key |-> "REVERT_NO_REASON",
        patterns |-> <<"execution reverted", "transaction reverted">>,
        category |-> "Execution Revert"],
       [key |-> "SLIPPAGE",
        patterns |-> <<"insufficient output amount", "excessive input amount",
                       "UniswapV2: K", "slippage">>,
        category |-> "Slippage Error"],
       [key |-> "ALLOWANCE",
        patterns |-> <<"allowance", "transfer amount exceeds allowance",
                       "erc20: insufficient allowance">>,
        category |-> "Allowance Error"],
       [key |-> "BALANCE",
        patterns |-> <<"insufficient balance", "transfer amount exceeds balance",
                       "erc20: transfer amount exceeds balance">>,
        category |-> "Balance Error"],
       [key |-> "DEADLINE",
        patterns |-> <<"transaction too old", "expired", "deadline">>,
        category |-> "Deadline Error"],
       [key |-> "REENTRANCY",
        patterns |-> <<"reentrant call", "reentrancy guard">>,
        category |-> "Reentrancy Guard"],
       [key |-> "OWNERSHIP",
        patterns |-> <<"ownable: caller is not the owner", "not authorized",
                       "access denied", "onlyowner">>,
        category |-> "Access Control Error"],
       [key |-> "PAUSED",
        patterns |-> <<"paused", "contract is paused", "pausable: paused">>,
        category |-> "Contract Paused"],
       [key |-> "NONCE",
        patterns |-> <<"nonce too low", "nonce too high",
                       "replacement transaction underpriced">>,
        category |-> "Nonce Error"] >>

\* Evaluating the literal allocates one array per entry: entry i's patterns
\* array lives at address i for the life of the process.
CatalogAddrs == 1..Len(ERROR_PATTERNS)

\* if (transactions.length > 10): the largest batch the handler accepts.
BatchLimit == 10

\* The requests and calls that can be in progress together.
Reqs == {"r1", "r2"}

\* The addresses of the arrays that calls allocate for the literal [] of an
\* UNKNOWN result: enough for every result that can be alive at a time (the
\* last call's and the remembered one, and one per transaction in progress).
FreshAddrs ==
    (Len(ERROR_PATTERNS) + 1)..(Len(ERROR_PATTERNS) + 2 + Cardinality(Reqs) * BatchLimit)

Addrs == CatalogAddrs \cup FreshAddrs

\* The indices of the successful entries of a results array.
Successes(res) == {j \in 1..Len(res) : res[j].success}

\* The patterns arrays that are reachable from a result somebody holds: the
\* remembered call's, and those of the diagnoses of the requests in progress.
\* (The last call's own result is replaced by the next call's.)
LiveOf(q) ==
    {results[q][j].result.errorCategory.patterns : j \in Successes(results[q])}
    \cup (IF dres[q].ended = "pending" THEN {dres[q].ctx.errorCategory.patterns}
          ELSE IF dres[q].ended = "returned"
          THEN {dres[q].result.errorCategory.patterns}
          ELSE {})

LiveAddrs ==
    (IF kept.op = "none" \/ kept.out.threw THEN {}
     ELSE IF kept.op = "classify" THEN {kept.out.value.patterns}
     ELSE {kept.out.value.errorCategory.patterns})
    \cup UNION {LiveOf(q) : q \in Reqs}

\* The array a call allocates now for the literal [] of its UNKNOWN result:
\* a new one, at the first address that no live result refers to.
FreshAddr ==
    CHOOSE a \in FreshAddrs \ LiveAddrs :
        \A b \in FreshAddrs \ LiveAddrs : a <= b

\* Object.entries(ERROR_PATTERNS)[i]: the key, and the entry object, whose
\* patterns property refers to the array at address i.
Entry(i) ==
    [key |-> ERROR_PATTERNS[i].key,
     category |-> ERROR_PATTERNS[i].category,
     patterns |-> i]

-----------------------------------------------------------------------------
(* detectErrorCategory                                                     *)

\* Mutant of searchParts: a record without an error text is searched as a
\* revert without a reason.
searchPartsDefaultReverted(tx) ==
    << Or(Get(tx, "error"), Str("execution reverted")),
       Or(Get(tx, "revertReason"), Str("")),
       Or(Get(tx, "errorMessage"), Str("")) >>

\* The three elements of the array literal that is joined.
searchParts(tx) ==
    << Or(Get(tx, "error"), Str("")),
       Or(Get(tx, "revertReason"), Str("")),
       Or(Get(tx, "errorMessage"), Str("")) >>

\* join(" ") converts every element to a string, and raises if one cannot be.
searchThrows(tx) == \E i \in 1..3 : ToStrThrows(searchParts(tx)[i])

searchStr(tx) == toLowerCase(join(searchParts(tx), " "))

\* Mutant of somePattern: the pattern is compared as the table writes it.
somePatternAsWritten(patterns, s) ==
    \E j \in 1..Len(patterns) : includes(s, patterns[j])

\* value.patterns.some((p) => searchStr.includes(p.toLowerCase()))
somePattern(patterns, s) ==
    \E j \in 1..Len(patterns) : includes(s, toLowerCase(patterns[j]))

\* Mutant of UNKNOWN: the fallback result carries another label.
UnknownMislabelled ==
    [key |-> "UNKNOWN", category |-> "Unknown", patterns |-> FreshAddr]

\* { key: "UNKNOWN", category: "Unknown Error", patterns: [] }
UNKNOWN == [key |-> "UNKNOWN", category |-> "Unknown Error", patterns |-> FreshAddr]

RECURSIVE scanLastWins(_, _, _)
\* Mutant of scanEntries: the loop does not return at the first match, so the
\* last matching entry is the result.
scanLastWins(h, s, i) ==
    IF i > Len(ERROR_PATTERNS) THEN UNKNOWN
    ELSE LET rest == scanLastWins(h, s, i + 1)
         IN  IF rest.key # "UNKNOWN" THEN rest
             ELSE IF somePattern(h[Entry(i).patterns], s) THEN Entry(i)
             ELSE rest

RECURSIVE scanEntries(_, _, _)
\* The for-of loop over Object.entries, from entry i on: the first entry with
\* a matching pattern is returned as { key, ...value }, a shallow copy whose
\* patterns is the entry's own array.
scanEntries(h, s, i) ==
    IF i > Len(ERROR_PATTERNS) THEN UNKNOWN
    ELSE IF somePattern(h[Entry(i).patterns], s) THEN Entry(i)
    ELSE scanEntries(h, s, i + 1)

\* Mutant of detectErrorCategory: a transaction that used its whole gas limit
\* is a gas error whatever its error texts say.
detectWithGasHeuristic(tx, h) ==
    IF searchThrows(tx) THEN [threw |-> TRUE]
    ELSE IF Truthy(Get(tx, "gasUsed")) /\ Get(tx, "gasUsed") = Get(tx, "gasLimit")
    THEN [threw |-> FALSE, value |-> Entry(1)]
    ELSE [threw |-> FALSE, value |-> scanEntries(h, searchStr(tx), 1)]

\* The call's outcome on record tx with heap h: it raises, or returns value.
detectErrorCategory(tx, h) ==
    IF searchThrows(tx) THEN [threw |-> TRUE]
    ELSE [threw |-> FALSE, value |-> scanEntries(h, searchStr(tx), 1)]

-----------------------------------------------------------------------------
(* buildTransactionContext                                                 *)

ClockEpoch == "2024-01-15T10:23:"

\* new Date().toISOString() when the clock stands t seconds (t < 60) after
\* the minute ClockEpoch.
toISOString(t) ==
    ClockEpoch \o Digits[(t \div 10) + 1] \o Digits[(t % 10) + 1] \o ".000Z"

\* Mutant of errorCategoryOf: only the raw error is classified.
errorCategoryOfErrorOnly(tx, h) ==
    detectErrorCategory(Rec([error |-> Get(tx, "error")]), h)

\* const errorCategory = detectErrorCategory(txData)
errorCategoryOf(tx, h) == detectErrorCategory(tx, h)

\* Mutant of contractAddressOf: no fallback to the recipient address.
contractAddressNoFallback(tx) == Or(Get(tx, "contractAddress"), Str("N/A"))

\* txData.contractAddress || txData.to || "N/A"
contractAddressOf(tx) ==
    Or(Or(Get(tx, "contractAddress"), Get(tx, "to")), Str("N/A"))

\* timestamp: txData.timestamp || new Date().toISOString()
timestampOf(tx, t) == Or(Get(tx, "timestamp"), Str(toISOString(t)))

\* The call's outcome on record tx with heap h when the clock reads t.
buildTransactionContext(tx, h, t) ==
    LET errorCategory == errorCategoryOf(tx, h)
    IN  IF errorCategory.threw THEN [threw |-> TRUE]
        ELSE [threw |-> FALSE,
              value |->
                [hash |-> Or(Get(tx, "hash"), Str("N/A")),
                 status |-> Or(Get(tx, "status"), Str("failed")),
                 errorCategory |-> errorCategory.value,
                 gasUsed |-> Or(Get(tx, "gasUsed"), Str("N/A")),
                 gasLimit |-> Or(Get(tx, "gasLimit"), Str("N/A")),
                 gasPrice |-> Or(Get(tx, "gasPrice"), Str("N/A")),
                 from |-> Or(Get(tx, "from"), Str("N/A")),
                 to |-> Or(Get(tx, "to"), Str("N/A")),
                 value |-> Or(Get(tx, "value"), Str("0")),
                 nonce |-> Or(Get(tx, "nonce"), Str("N/A")),
                 error |-> Or(Get(tx, "error"), Str("No error message")),
                 revertReason |-> Or(Get(tx, "revertReason"), Str("No revert reason")),
                 contractAddress |-> contractAddressOf(tx),
                 contractName |-> Or(Get(tx, "contractName"), Str("Unknown Contract")),
                 functionName |-> Or(Get(tx, "functionName"), Str("Unknown Function")),
                 inputData |-> Or(Get(tx, "inputData"), Str("N/A")),
                 network |-> Or(Get(tx, "network"), Str("Ethereum Mainnet")),
                 timestamp |-> timestampOf(tx, t),
                 additionalContext |-> Or(Get(tx, "additionalContext"), Obj(NoProps))]]

-----------------------------------------------------------------------------
(* The records the callers pass in.                                        *)

ErrorValues ==
    { Undefined, Str(""), Str("out of gas"), Str("OUT OF GAS"),
      Str("execution reverted"), Str("ERC20: transfer amount exceeds allowance"),
      Str("gas required exceeds allowance"), Str("out of"),
      Null, Num(0), Num(5), Bool(TRUE),
      Arr(<<Str("Pausable: paused"), Num(12)>>),
      Obj(NoProps), Obj("toString" :> Num(1)) }

RevertValues ==
    { Undefined, Str(""), Str("ERC20: insufficient allowance"),
      Str("UniswapV2: INSUFFICIENT_OUTPUT_AMOUNT"),
      Str("VL_COLLATERAL_CANNOT_COVER_NEW_BORROW"),
      Str("Pausable: paused"), Str("gas"), Str("GAS"),
      Str("UniswapV2: K"), Str("uniswapv2: k"),
      Str("Transaction ran out of gas") }

MessageValues ==
    { Undefined, Str("Contract is UNPAUSED"), Str("deadline EXPIRED, nonce too low") }

MessageErrorValues ==
    { Undefined, Str("execution reverted"), Str("out of"), Obj(NoProps) }

MessageRevertValues == { Undefined, Str("gas"), Str("Pausable: paused") }

\* Records that carry only the error-text fields.
TextRecords ==
    { Rec([error |-> e, revertReason |-> r]) :
          e \in ErrorValues, r \in RevertValues }
    \cup
    { Rec([error |-> e, revertReason |-> r, errorMessage |-> m]) :
          e \in MessageErrorValues, r \in MessageRevertValues, m \in MessageValues }

\* DEMO_TRANSACTIONS.outOfGas of the CLI, without its error-text fields.
DemoShape ==
    [hash |-> Str("0x1a2b3c4d5e6f7a8b9c0d1e2f3a4b5c6d7e8f9a0b1c2d3e4f5a6b7c8d9e0f1a2b"),
     network |-> Str("Ethereum Mainnet"),
     from |-> Str("0xUserWallet123...abc"),
     to |-> Str("0xUniswapV2Router02"),
     contractName |-> Str("Uniswap V2 Router"),
     functionName |-> Str("swapExactTokensForETH"),
     gasUsed |-> Str("21000"),
     gasLimit |-> Str("21000"),
     gasPrice |-> Str("30 Gwei"),
     value |-> Str("0"),
     nonce |-> Str("42"),
     inputData |-> Str("0x18cbafe5...."),
     timestamp |-> Str("2024-01-15T10:23:45Z"),
     additionalContext |->
         Obj([tokenIn |-> Str("USDC"), tokenOut |-> Str("ETH"),
              amountIn |-> Str("1000 USDC"), estimatedGas |-> Str("150000"),
              actualGasLimit |-> Str("21000")])]

\* Every optional field present with a falsy value.
FalsyShape ==
    [hash |-> Str(""), status |-> Null, network |-> Str(""), from |-> Null,
     to |-> Str(""), contractAddress |-> Num(0), contractName |-> Str(""),
     functionName |-> Null, gasUsed |-> Num(0), gasLimit |-> Str(""),
     gasPrice |-> Bool(FALSE), value |-> Num(0), nonce |-> Num(0),
     inputData |-> Str(""), timestamp |-> Str(""), additionalContext |-> Null]

\* A few fields present, some of them not strings.
PartialShape ==
    [gasLimit |-> Str("21000"), gasUsed |-> Num(21000), status |-> Str("reverted"),
     nonce |-> Num(42), hash |-> Str("0xabc123..."),
     additionalContext |-> Arr(<<Str("note")>>)]

Shapes == {NoProps, DemoShape, FalsyShape, PartialShape}

ContractAddressValues == {Undefined, Str(""), Str("0xPool")}

ToValues == {Undefined, Str(""), Str("0xRouter")}

\* The error and revertReason of a shaped record.
ShapedTexts ==
    { <<Undefined, Undefined>>, <<Str(""), Str("")>>,
      <<Str("ERC20: transfer amount exceeds allowance"), Undefined>>,
      <<Str("execution reverted"), Str("Pausable: paused")>> }

\* Records of shape sh, with each combination of contract and recipient
\* address given, empty or absent.
ShapedWith(sh) ==
    { Rec([contractAddress |-> a, to |-> t, error |-> x[1], revertReason |-> x[2]]
              @@ [f \in DOMAIN sh \ {"contractAddress", "to"} |-> sh[f]]) :
          a \in ContractAddressValues \cup {Get(sh, "contractAddress")},
          t \in ToValues \cup {Get(sh, "to")},
          x \in ShapedTexts }

ShapedRecords == UNION { ShapedWith(sh) : sh \in Shapes }

Records == TextRecords \cup ShapedRecords

-----------------------------------------------------------------------------
(* State and operations.                                                   *)

NoCall == [op |-> "none"]

NotEnded == [ended |-> "no"]

NoResponse == [status |-> 0]

\* No request has arrived and no diagnosis has started.
BatchIdle ==
    /\ kind = [q \in Reqs |-> "none"]
    /\ body = [q \in Reqs |-> Undefined]
    /\ hpc = [q \in Reqs |-> "idle"]
    /\ response = [q \in Reqs |-> NoResponse]
    /\ results = [q \in Reqs |-> <<>>]
    /\ bres = [q \in Reqs |-> NotEnded]
    /\ dpc = [q \in Reqs |-> 0]
    /\ history = [q \in Reqs |-> <<>>]
    /\ sent = [q \in Reqs |-> <<>>]
    /\ dres = [q \in Reqs |-> NotEnded]

\* After the module is loaded: the catalog's arrays hold the literal's
\* patterns, and the first request's record has not yet been passed to a call.
Init ==
    /\ heap = [a \in Addrs |->
                  IF a \in CatalogAddrs THEN ERROR_PATTERNS[a].patterns ELSE <<>>]
    /\ txData \in Records
    /\ call = NoCall
    /\ now = 0
    /\ edits = 0
    /\ kept = NoCall
    /\ BatchIdle

\* The heap after a call that returned category object cat: the literal []
\* of an UNKNOWN result is a newly allocated empty array.
Allocate(h, cat) ==
    IF cat.patterns \in FreshAddrs THEN [h EXCEPT ![cat.patterns] = <<>>] ELSE h

\* The next request arrives: a new record r.
NewRecord(r) ==
    /\ txData' = r
    /\ call' = NoCall
    /\ UNCHANGED <<heap, now, edits, kept, batchVars>>

\* A caller calls detectErrorCategory(txData).
Classify ==
    LET out == detectErrorCategory(txData, heap)
    IN  /\ call' = [op |-> "classify", at |-> now, out |-> out]
        /\ heap' = IF out.threw THEN heap ELSE Allocate(heap, out.value)
        /\ UNCHANGED <<txData, now, edits, kept, batchVars>>

\* Mutant of Normalize: the defaults are written into the caller's record.
NormalizeWritesDefaults ==
    LET out == buildTransactionContext(txData, heap, now)
    IN  /\ call' = [op |-> "normalize", at |-> now, out |-> out]
        /\ heap' = IF out.threw THEN heap
                   ELSE Allocate(heap, out.value.errorCategory)
        /\ txData' = IF out.threw THEN txData
                     ELSE [f \in DOMAIN txData \cup {"error", "revertReason"} |->
                              IF f \in {"error", "revertReason"}
                              THEN out.value[f] ELSE txData[f]]
        /\ UNCHANGED <<now, edits, kept, batchVars>>

\* A caller calls buildTransactionContext(txData).
Normalize ==
    LET out == buildTransactionContext(txData, heap, now)
    IN  /\ call' = [op |-> "normalize", at |-> now, out |-> out]
        /\ heap' = IF out.threw THEN heap
                   ELSE Allocate(heap, out.value.errorCategory)
        /\ UNCHANGED <<txData, now, edits, kept, batchVars>>

\* Time passes.
Tick ==
    /\ now < MaxClock
    /\ now' = now + 1
    /\ UNCHANGED <<heap, txData, call, edits, kept, batchVars>>

Next ==
    \/ \E r \in Records : NewRecord(r)
    \/ Classify
    \/ Normalize
    \/ Tick

Spec == Init /\ [][Next]_vars

-----------------------------------------------------------------------------
(* A caller that modifies the result it received.                          *)

\* The category object of the last call's result.
ResultCategory ==
    IF call.op = "classify" THEN call.out.value ELSE call.out.value.errorCategory

HasResult == call.op # "none" /\ ~call.out.threw

PushedPatterns == {"vl_collateral"}

\* result.patterns.push(p)
PatternsPush(p) ==
    /\ HasResult
    /\ edits < MaxEdits
    /\ heap' = [heap EXCEPT ![ResultCategory.patterns] = Append(@, p)]
    /\ edits' = edits + 1
    /\ UNCHANGED <<txData, call, now, kept, batchVars>>

\* result.patterns.length = 0
PatternsTruncate ==
    /\ HasResult
    /\ edits < MaxEdits
    /\ heap' = [heap EXCEPT ![ResultCategory.patterns] = <<>>]
    /\ edits' = edits + 1
    /\ UNCHANGED <<txData, call, now, kept, batchVars>>

NextCallers ==
    \/ Next
    \/ \E p \in PushedPatterns : PatternsPush(p)
    \/ PatternsTruncate

SpecCallers == Init /\ [][NextCallers]_vars

-----------------------------------------------------------------------------
(* Properties.                                                             *)

\* The last call was op and returned a value.
Returned(op) == call.op = op /\ ~call.out.threw

\* Entry i of the catalog has a substring occurring somewhere in text s.
Hit(i, s) ==
    \E j \in 1..Len(heap[i]) : includes(s, toLowerCase(heap[i][j]))

Hits(s) == {i \in CatalogAddrs : Hit(i, s)}

\* The order of the categories as the specification lists it.
CatalogOrder ==
    << "OUT_OF_GAS", "REVERT_NO_REASON", "SLIPPAGE", "ALLOWANCE", "BALANCE",
       "DEADLINE", "REENTRANCY", "OWNERSHIP", "PAUSED", "NONCE" >>

\* C1: when the search text of the classified record contains a catalog
\* substring, the result is the key, category and patterns of the first
\* entry, in catalog order, that has a substring in the text; no later entry
\* is returned when an earlier one matches.
C1_FirstMatchWins ==
    Returned("classify") =>
        LET hits == Hits(searchStr(txData))
            res == call.out.value
        IN  hits # {} =>
                \E i \in hits :
                    /\ \A j \in hits : i <= j
                    /\ res.key = CatalogOrder[i]
                    /\ res.category = ERROR_PATTERNS[i].category
                    /\ heap[res.patterns] = ERROR_PATTERNS[i].patterns

\* A record whose text matches both OUT_OF_GAS and the later ALLOWANCE has
\* been classified as OUT_OF_GAS.
C1_Witness ==
    /\ Returned("classify")
    /\ {1, 4} \subseteq Hits(searchStr(txData))
    /\ call.out.value.key = "OUT_OF_GAS"

\* C2: with error "execution reverted", a revert reason naming a specific
\* failure decides the category: "ERC20: insufficient allowance" gives
\* "Allowance Error", and "UniswapV2: INSUFFICIENT_OUTPUT_AMOUNT" gives key
\* SLIPPAGE, category "Slippage Error", in the context's errorCategory.
C2_SpecificReasonWins ==
    /\ ( /\ call.op = "classify"
         /\ Get(txData, "error") = Str("execution reverted")
         /\ Get(txData, "revertReason") = Str("ERC20: insufficient allowance") )
       => Returned("classify") /\ call.out.value.category = "Allowance Error"
    /\ ( /\ call.op = "normalize"
         /\ Get(txData, "error") = Str("execution reverted")
         /\ Get(txData, "revertReason") = Str("UniswapV2: INSUFFICIENT_OUTPUT_AMOUNT") )
       => /\ Returned("normalize")
          /\ call.out.value.errorCategory.key = "SLIPPAGE"
          /\ call.out.value.errorCategory.category = "Slippage Error"

\* C3: when the text of the classified record contains no catalog substring,
\* the result is exactly key "UNKNOWN", category "Unknown Error" and an empty
\* patterns list; so it is for {revertReason: "VL_COLLATERAL_CANNOT_COVER_NEW_BORROW"}.
C3_NoMatchIsUnknown ==
    /\ ( Returned("classify") /\ Hits(searchStr(txData)) = {} )
       => /\ call.out.value.key = "UNKNOWN"
          /\ call.out.value.category = "Unknown Error"
          /\ heap[call.out.value.patterns] = <<>>
    /\ ( /\ call.op = "classify"
         /\ txData = [revertReason |-> Str("VL_COLLATERAL_CANNOT_COVER_NEW_BORROW")] )
       => Returned("classify") /\ call.out.value.key = "UNKNOWN"

\* The record {revertReason: "VL_COLLATERAL_CANNOT_COVER_NEW_BORROW"} has
\* been classified, and as UNKNOWN.
C3_Witness ==
    /\ Returned("classify")
    /\ txData = [revertReason |-> Str("VL_COLLATERAL_CANNOT_COVER_NEW_BORROW")]
    /\ call.out.value.key = "UNKNOWN"

TextFields == {"error", "revertReason", "errorMessage"}

\* The record with every error-text field that is not a string removed.
StringsOnly(tx) ==
    [f \in {x \in DOMAIN tx : x \in TextFields => tx[x].t = "string"} |-> tx[f]]

\* C4: classify never raises, and a non-string error, revertReason or
\* errorMessage is treated exactly as if the field were absent: the result is
\* that of the record without it.
C4_NonStringIsAbsent ==
    call.op = "classify" =>
        /\ ~call.out.threw
        /\ call.out.value.key =
               detectErrorCategory(StringsOnly(txData), heap).value.key

\* C5: the errorCategory of normalize's result is classify's result on the
\* same record: same key, same category, same patterns (and normalize
\* returns exactly when classify does).
C5_EmbeddedCategory ==
    call.op = "normalize" =>
        LET c == detectErrorCategory(txData, heap)
        IN  /\ call.out.threw = c.threw
            /\ ~c.threw =>
                   /\ call.out.value.errorCategory.key = c.value.key
                   /\ call.out.value.errorCategory.category = c.value.category
                   /\ call.out.value.errorCategory.patterns = c.value.patterns

\* A record whose revert reason, not its error, decides the category has
\* been normalized.
C5_Witness ==
    /\ Returned("normalize")
    /\ ~Truthy(Get(txData, "error"))
    /\ call.out.value.errorCategory.key = "PAUSED"

\* The fixed defaults of the canonical fields, as the specification lists them.
DocumentedDefaults ==
    [hash |-> Str("N/A"), gasUsed |-> Str("N/A"), gasLimit |-> Str("N/A"),
     gasPrice |-> Str("N/A"), from |-> Str("N/A"), to |-> Str("N/A"),
     nonce |-> Str("N/A"), inputData |-> Str("N/A"),
     error |-> Str("No error message"),
     revertReason |-> Str("No revert reason"),
     contractName |-> Str("Unknown Contract"),
     functionName |-> Str("Unknown Function"),
     additionalContext |-> Obj(NoProps)]

CanonicalFields ==
    DOMAIN DocumentedDefaults \cup
        {"status", "value", "network", "contractAddress", "timestamp", "errorCategory"}

\* Whenever normalize returns, its record has every canonical field, none of
\* them undefined or null; each field with a documented default equals the
\* input's value when that is present and not falsy, and the default
\* otherwise; timestamp is the input's, or else the time of the call.
ReturnedContextComplete ==
    Returned("normalize") =>
        LET ctx == call.out.value
        IN  /\ DOMAIN ctx = CanonicalFields
            /\ \A f \in CanonicalFields \ {"errorCategory"} :
                   ctx[f].t \notin {"undefined", "null"}
            /\ \A f \in DOMAIN DocumentedDefaults :
                   ctx[f] = IF f \in DOMAIN txData /\ Truthy(txData[f])
                            THEN txData[f] ELSE DocumentedDefaults[f]
            /\ ctx.timestamp =
                   IF "timestamp" \in DOMAIN txData /\ Truthy(txData.timestamp)
                   THEN txData.timestamp ELSE Str(toISOString(call.at))

\* C6: for every record, normalize returns a record in which every
\* canonical field is defined: the input's value when present and not falsy,
\* else the documented default; no field is absent, undefined or null.
C6_EveryFieldDefined ==
    /\ call.op = "normalize" => ~call.out.threw
    /\ ReturnedContextComplete

Given(tx, f) == f \in DOMAIN tx

\* C7 as stated: contractAddress is the input's contractAddress when that
\* field is given, else the input's to when that is given, and "N/A" only
\* when both are absent.
C7_GivenFallback ==
    Returned("normalize") =>
        LET ca == call.out.value.contractAddress
        IN  /\ Given(txData, "contractAddress") => ca = txData.contractAddress
            /\ (~Given(txData, "contractAddress") /\ Given(txData, "to"))
                   => ca = txData.to
            /\ ca = Str("N/A") =>
                   ~Given(txData, "contractAddress") /\ ~Given(txData, "to")

\* C7, amended: contractAddress is the input's contractAddress when that is
\* present and not falsy; else the input's to when that is present and not
\* falsy; else "N/A".  {to: "0xRouter", error: "ERC20: transfer amount
\* exceeds allowance"} gives "0xRouter" and key ALLOWANCE.
C7_TruthyFallback ==
    /\ Returned("normalize") =>
          LET ca == call.out.value.contractAddress
              a == Get(txData, "contractAddress")
              t == Get(txData, "to")
          IN  /\ Truthy(a) => ca = a
              /\ (~Truthy(a) /\ Truthy(t)) => ca = t
              /\ (~Truthy(a) /\ ~Truthy(t)) => ca = Str("N/A")
    /\ ( /\ call.op = "normalize"
         /\ txData = [to |-> Str("0xRouter"),
                      error |-> Str("ERC20: transfer amount exceeds allowance")] )
       => /\ Returned("normalize")
          /\ call.out.value.contractAddress = Str("0xRouter")
          /\ call.out.value.errorCategory.key = "ALLOWANCE"
          /\ call.out.value.errorCategory.category = "Allowance Error"

\* A record with a recipient but no contract address has been normalized, and
\* its contractAddress is the recipient.
C7_Witness ==
    /\ Returned("normalize")
    /\ txData = [to |-> Str("0xRouter"),
                 error |-> Str("ERC20: transfer amount exceeds allowance")]
    /\ call.out.value.contractAddress = Str("0xRouter")

\* Records r1 and r2 differ at most in the letter case of their error texts.
SameUpToCase(r1, r2) ==
    /\ DOMAIN r1 = DOMAIN r2
    /\ \A f \in DOMAIN r1 :
           IF f \in TextFields /\ r1[f].t = "string" /\ r2[f].t = "string"
           THEN toLowerCase(r1[f].v) = toLowerCase(r2[f].v)
           ELSE r1[f] = r2[f]

\* C8: every record that differs from the classified one only in the letter
\* case of its error texts receives the same classification; and text that
\* contains "uniswapv2: k" in any case, and no substring of an earlier entry,
\* is classified SLIPPAGE although the table writes "UniswapV2: K".
C8_CaseInsensitive ==
    call.op = "classify" =>
        /\ \A r \in Records :
               SameUpToCase(r, txData) => detectErrorCategory(r, heap) = call.out
        /\ ( /\ ~call.out.threw
             /\ includes(searchStr(txData), "uniswapv2: k")
             /\ Hits(searchStr(txData)) \cap {1, 2} = {} )
           => call.out.value.key = "SLIPPAGE"

\* The text "uniswapv2: k", all in lower case, has been classified SLIPPAGE,
\* as has its variant "UniswapV2: K".
C8_Witness ==
    /\ Returned("classify")
    /\ txData = [revertReason |-> Str("uniswapv2: k")]
    /\ call.out.value.key = "SLIPPAGE"
    /\ detectErrorCategory([revertReason |-> Str("UniswapV2: K")], heap) = call.out

\* C9: the catalog holds the ten entries with the substrings of the literal,
\* in the same order, in every reachable state, also when callers modify the
\* results they received.
C9_CatalogImmutable ==
    /\ Len(ERROR_PATTERNS) = 10
    /\ \A i \in CatalogAddrs : heap[i] = ERROR_PATTERNS[i].patterns

\* C10: a call of classify or normalize leaves the caller's record as it
\* was: every field keeps its value and none is added or removed.
C10_InputUnchanged ==
    [][(call' # call /\ call'.op # "none") => txData' = txData]_vars

\* A record without an error field has been normalized: the result carries
\* the default, and the record still has no error field.
C10_Witness ==
    /\ Returned("normalize")
    /\ txData # NoProps
    /\ "error" \notin DOMAIN txData
    /\ call.out.value.error = Str("No error message")

-----------------------------------------------------------------------------
(* Repeated calls: a caller remembers the outcome of one call, other calls *)
(* follow on other records, and the same call is made again on the         *)
(* remembered record.                                                      *)

\* The records the callers pass more than once: matched, unmatched, raising,
\* with a timestamp (the demo's) and with timestamp "" (the falsy shape).
RepeatRecords ==
    {Rec([error |-> e]) :
        e \in {Undefined, Str("ERC20: transfer amount exceeds allowance"),
               Obj("toString" :> Num(1))}}
    \cup {r \in ShapedWith(DemoShape) \cup ShapedWith(FalsyShape) :
             /\ Get(r, "error") = Str("execution reverted")
             /\ Get(r, "contractAddress") = Get(r, "to")}

\* The caller keeps the outcome of the call that has just completed.
Keep ==
    /\ call.op # "none"
    /\ txData \in RepeatRecords
    /\ kept' = [op |-> call.op, at |-> call.at, out |-> call.out, rec |-> txData]
    /\ UNCHANGED <<heap, txData, call, now, edits, batchVars>>

\* Calls on repeated records, by callers that may modify the results they
\* received.
NextTwice ==
    \/ \E r \in RepeatRecords : NewRecord(r)
    \/ Classify
    \/ Normalize
    \/ Tick
    \/ Keep
    \/ \E p \in PushedPatterns : PatternsPush(p)
    \/ PatternsTruncate

SpecTwice == Init /\ [][NextTwice]_vars

\* The last call repeats the remembered one: same operation, same record.
Again == kept.op # "none" /\ call.op = kept.op /\ txData = kept.rec

\* Two category objects were equal when they were returned: same key, same
\* category, and patterns that are the same catalog array or a new empty
\* array each.
SameResult(c1, c2) ==
    /\ c1.key = c2.key
    /\ c1.category = c2.category
    /\ IF c1.patterns \in FreshAddrs THEN c2.patterns \in FreshAddrs
       ELSE c1.patterns = c2.patterns

\* Two outcomes of classify agree: both raised, or both returned equal
\* results.
SameClassification(a, b) ==
    /\ a.threw = b.threw
    /\ ~a.threw => SameResult(a.value, b.value)

\* Two outcomes of normalize agree: both raised, or both returned contexts
\* equal in every field other than timestamp.
SameButTimestamp(a, b) ==
    /\ a.threw = b.threw
    /\ ~a.threw =>
          /\ \A f \in DOMAIN a.value \ {"timestamp", "errorCategory"} :
                a.value[f] = b.value[f]
          /\ SameResult(a.value.errorCategory, b.value.errorCategory)

\* The two contexts carry different timestamps.
TimestampsDiffer ==
    /\ call.op = "normalize" /\ ~call.out.threw /\ ~kept.out.threw
    /\ call.out.value.timestamp # kept.out.value.timestamp

\* The two outcomes are equal, timestamp aside.
EqualOutcomes ==
    Again =>
        IF call.op = "classify" THEN SameClassification(call.out, kept.out)
        ELSE SameButTimestamp(call.out, kept.out)

\* C11: two calls of classify on the same record return equal
\* results whatever calls came in between, and two calls of normalize on the
\* same record return contexts equal in every field, except that timestamp
\* may differ, and only when the input has no timestamp field.
C11_Deterministic ==
    /\ EqualOutcomes
    /\ (Again /\ TimestampsDiffer) => ~Given(txData, "timestamp")

-----------------------------------------------------------------------------
(* Which fields the classification reads.                                  *)

\* Records r1 and r2 agree on error, revertReason and errorMessage.
SameTexts(r1, r2) == \A f \in TextFields : Get(r1, f) = Get(r2, f)

\* The records that agree with the current one on the three text fields and
\* differ from it elsewhere.
TextTwins == {r \in Records : r # txData /\ SameTexts(r, txData)}

\* C14: the classification depends only on error, revertReason and
\* errorMessage: every record that agrees with the classified one on these
\* three fields receives the same outcome, whatever its other fields hold.
C14_OnlyTextFields ==
    call.op = "classify" =>
        \A r \in TextTwins : detectErrorCategory(r, heap) = call.out

\* The demo's fully populated record was classified as ALLOWANCE, and records
\* with other hashes, addresses, gas figures and contexts carry the same texts.
C14_Witness ==
    /\ Returned("classify")
    /\ call.out.value.key = "ALLOWANCE"
    /\ Get(txData, "hash") = DemoShape.hash
    /\ \E r \in TextTwins : DOMAIN r = TextFields \cap DOMAIN txData
    /\ \E r \in TextTwins : Get(r, "gasUsed") # Get(txData, "gasUsed")

-----------------------------------------------------------------------------
(* Classifying a context that normalize returned.                          *)

\* The context as a record a caller can pass to detectErrorCategory: its
\* fields hold JavaScript values, errorCategory aside, which classify does
\* not read.
ContextRecord == [f \in DOMAIN call.out.value \ {"errorCategory"} |-> call.out.value[f]]

\* detectErrorCategory(ctx) for the returned context ctx.
Reclassified == detectErrorCategory(ContextRecord, heap)

\* Two category objects are equal: same key, same category, same patterns.
SameCategory(c1, c2) ==
    /\ c1.key = c2.key
    /\ c1.category = c2.category
    /\ heap[c1.patterns] = heap[c2.patterns]

\* classify(normalize(r)) returns normalize(r).errorCategory.
SelfConsistent ==
    /\ ~Reclassified.threw
    /\ SameCategory(Reclassified.value, call.out.value.errorCategory)

\* C16: every context is self-consistent: for every record r, classifying
\* the context normalize(r) gives normalize(r).errorCategory.
C16_SelfConsistent == Returned("normalize") => SelfConsistent

\* C16, amended: for every record r whose errorMessage is absent or falsy,
\* classifying the context normalize(r) gives normalize(r).errorCategory.
C16_SelfConsistentWithoutMessage ==
    (Returned("normalize") /\ ~Truthy(Get(txData, "errorMessage"))) => SelfConsistent

\* A record without error and without errorMessage was normalized: the
\* context carries the default "No error message" beside a revert reason that
\* names a catalog pattern, and classifies as its embedded category does.
C16_Witness ==
    /\ Returned("normalize")
    /\ ~Given(txData, "errorMessage") /\ ~Given(txData, "error")
    /\ call.out.value.error = Str("No error message")
    /\ call.out.value.errorCategory.key = "PAUSED"
    /\ Reclassified.value.key = "PAUSED"

-----------------------------------------------------------------------------
(* diagnoseTxFailure and its callers: batchAnalyze under POST /batch,      *)
(* POST /diagnose, and interactiveDiagnosis.  Several can be in progress   *)
(* together; each runs from one await to the next in one step.             *)

\* At most MaxFailures model requests of the requests in progress are
\* rejected or answered without content.
MaxFailures == 1

engineVars == <<txData, call, edits, kept>>

\* The transactions submitted: one the catalog classifies, an empty object,
\* and one whose error cannot be converted to a string (and null).
AllowanceTx ==
    Obj([hash |-> Str("0xabc123..."),
         error |-> Str("ERC20: transfer amount exceeds allowance"),
         timestamp |-> Str("2024-01-15T10:23:45Z")])

UnknownTx == Obj(NoProps)

RaisingTx == Obj([error |-> Obj("toString" :> Num(1))])

\* An array of n transactions: n - 1 whose diagnosis raises, then one that
\* is diagnosed.
LongBatch(n) == [j \in 1..n |-> IF j < n THEN RaisingTx ELSE AllowanceTx]

\* The arrays submitted to POST /batch: the empty one, one transaction, null
\* alone, pairs (two diagnosed, a failure before a diagnosed one, null after
\* a diagnosed one), and arrays of BatchLimit and BatchLimit + 1
\* transactions.
BatchArrays ==
    {<<>>, <<AllowanceTx>>, <<Null>>, <<UnknownTx, UnknownTx>>,
     <<RaisingTx, AllowanceTx>>, <<AllowanceTx, Null>>}
    \cup {LongBatch(n) : n \in {BatchLimit, BatchLimit + 1}}

\* The values of req.body.transactions.
Bodies ==
    {Undefined, Str("0xabc123..."), Obj(NoProps)}
    \cup {Arr(a) : a \in BatchArrays}

\* The values of req.body of POST /diagnose.
DiagnoseBodies ==
    {Null, Str("0xabc123..."), AllowanceTx, RaisingTx,
     Obj([hash |-> Obj("toString" :> Num(1))])}

\* The records passed to interactiveDiagnosis.
InteractiveTxs == {AllowanceTx}

\* The errors with which the API client rejects a request.
ApiErrors == {"529 overloaded_error"}

\* The first lines of the three user prompts.
UserPrompts ==
    << "Analyze this failed DeFi transaction and explain why it failed:",
       "Based on your diagnosis, can you provide:",
       "Finally, provide a brief risk assessment:" >>

\* The text of the model's answer to the first, second and third request.
Replies ==
    << "**Root Cause**: the router's allowance is too low",
       "token.approve(router, amountIn)",
       "Confidence: High" >>

Msg(role, content) == [role |-> role, content |-> content]

\* The properties of a transaction: a primitive has none of the fields read.
PropsOf(tx) == IF tx.t = "object" THEN tx.v ELSE NoProps

Nullish(v) == v \in {Null, Undefined}

\* TypeError messages.
ReadOfNull(v, f) ==
    "Cannot read properties of " \o v.t \o " (reading '" \o f \o "')"

ConvertError == "Cannot convert object to primitive value"

EmptyContentError == "Cannot read properties of undefined (reading 'text')"

\* `Processing: ${tx.hash || "Unknown"}`, evaluated before the try block.
LogThrows(tx) ==
    \/ Nullish(tx)
    \/ ToStrThrows(Or(Get(PropsOf(tx), "hash"), Str("Unknown")))

LogError(tx) == IF Nullish(tx) THEN ReadOfNull(tx, "hash") ELSE ConvertError

\* The context's fields that the user prompt interpolates.
PromptFields ==
    {"hash", "network", "timestamp", "from", "to", "contractName",
     "contractAddress", "functionName", "value", "gasUsed", "gasLimit",
     "gasPrice", "error", "revertReason", "inputData"}

PromptThrows(ctx) == \E f \in PromptFields : ToStrThrows(ctx[f])

\* diagnoseTxFailure up to its first await: it raises, or has built the
\* context and the first prompt.
diagnoseStart(tx, h, t) ==
    IF Nullish(tx) THEN [threw |-> TRUE, error |-> ReadOfNull(tx, "error")]
    ELSE LET c == buildTransactionContext(PropsOf(tx), h, t)
         IN  IF c.threw \/ PromptThrows(c.value)
             THEN [threw |-> TRUE, error |-> ConvertError]
             ELSE [threw |-> FALSE, ctx |-> c.value]

\* The object diagnoseTxFailure returns.
diagnoseResult(ctx, hist, risk) ==
    [transactionContext |-> ctx,
     diagnosis |-> hist[2].content,
     codeFix |-> hist[4].content,
     riskAssessment |-> risk,
     errorCategory |-> ctx.errorCategory,
     conversationTurns |-> 3]

\* batchAnalyze's summary of results res for the transactions txs.
Summary(res, txs) ==
    [total |-> Len(txs),
     analyzed |-> Cardinality(Successes(res)),
     failed |-> Cardinality((1..Len(res)) \ Successes(res)),
     categorySummary |->
        [c \in {res[j].result.errorCategory.category : j \in Successes(res)} |->
            Cardinality({j \in Successes(res) :
                            res[j].result.errorCategory.category = c})]]

\* The body of the handler's res.json(...) after batchAnalyze returned.
BatchResponse(res, summary) ==
    [status |-> 200, success |-> TRUE,
     summary |-> summary,
     results |->
        [j \in 1..Len(res) |->
            IF res[j].success
            THEN [hash |-> res[j].result.transactionContext.hash,
                  errorCategory |-> res[j].result.errorCategory,
                  diagnosis |-> res[j].result.diagnosis,
                  codeFix |-> res[j].result.codeFix,
                  riskAssessment |-> res[j].result.riskAssessment]
            ELSE [error |-> res[j].error, tx |-> res[j].tx]]]

\* The body of POST /diagnose's res.json(...) for the request body b, the
\* diagnosis result r and the clock reading t.
DiagnoseResponse(b, r, t) ==
    [status |-> 200, success |-> TRUE,
     hash |-> Get(PropsOf(b), "hash"),
     errorCategory |-> r.errorCategory,
     diagnosis |-> r.diagnosis,
     codeFix |-> r.codeFix,
     riskAssessment |-> r.riskAssessment,
     analysisTimestamp |-> Str(toISOString(t))]

\* The example POST /diagnose sends with its 400.
DiagnoseExample ==
    [hash |-> "0x...",
     error |-> "execution reverted",
     revertReason |-> "ERC20: insufficient allowance",
     gasUsed |-> "45000",
     gasLimit |-> "300000"]

\* The catch block's response.
ErrorResponse(e) == [status |-> 500, success |-> FALSE, error |-> e]

\* The model requests of the requests in progress that were rejected or
\* answered without content.
EnvErrors == ApiErrors \cup {EmptyContentError}

Failures ==
    Cardinality({<<q, j>> \in Reqs \X (0..BatchLimit) :
                    IF j = 0
                    THEN dres[q].ended = "threw" /\ dres[q].error \in EnvErrors
                    ELSE /\ j <= Len(results[q])
                         /\ ~results[q][j].success
                         /\ results[q][j].error \in EnvErrors})

Put(f, q, v) == [f EXCEPT ![q] = v]

\* q calls diagnoseTxFailure(tx), which runs to its first await: it raises,
\* or sends the first request.
Start(q, tx) ==
    LET d == diagnoseStart(tx, heap, now)
    IN  IF d.threw
        THEN /\ dpc' = Put(dpc, q, 0)
             /\ dres' = Put(dres, q, [ended |-> "threw", error |-> d.error])
             /\ history' = Put(history, q, <<>>)
             /\ sent' = Put(sent, q, <<>>)
             /\ heap' = heap
        ELSE /\ dpc' = Put(dpc, q, 1)
             /\ dres' = Put(dres, q, [ended |-> "pending", ctx |-> d.ctx])
             /\ history' = Put(history, q, <<Msg("user", UserPrompts[1])>>)
             /\ sent' = Put(sent, q, <<[messages |-> history'[q],
                                        outcome |-> "pending"]>>)
             /\ heap' = Allocate(heap, d.ctx.errorCategory)

\* batchAnalyze at the head of its loop with results res: after the last
\* transaction it returns; otherwise it logs the next transaction and calls
\* diagnoseTxFailure.  An exception of the log line leaves batchAnalyze.
\* The handler, which awaits batchAnalyze, resumes in a later step.
Enter(q, txs, res) ==
    /\ results' = Put(results, q, res)
    /\ IF Len(res) = Len(txs)
       THEN /\ hpc' = Put(hpc, q, "settled")
            /\ bres' = Put(bres, q, [ended |-> "returned", results |-> res,
                                     summary |-> Summary(res, txs)])
            /\ dres' = Put(dres, q, NotEnded)
            /\ UNCHANGED <<dpc, history, sent, heap>>
       ELSE IF LogThrows(txs[Len(res) + 1])
       THEN /\ hpc' = Put(hpc, q, "settled")
            /\ bres' = Put(bres, q, [ended |-> "threw",
                                     error |-> LogError(txs[Len(res) + 1])])
            /\ dres' = Put(dres, q, NotEnded)
            /\ UNCHANGED <<dpc, history, sent, heap>>
       ELSE /\ hpc' = Put(hpc, q, "running")
            /\ Start(q, txs[Len(res) + 1])
            /\ UNCHANGED bres

\* POST /batch arrives with req.body.transactions = b and is served as q.
ReceiveBatch(q, b) ==
    /\ hpc[q] = "idle"
    /\ kind' = Put(kind, q, "batch")
    /\ body' = Put(body, q, b)
    /\ IF b.t # "array" \/ Len(b.v) = 0
       THEN /\ hpc' = Put(hpc, q, "responded")
            /\ response' = Put(response, q,
                  [status |-> 400,
                   error |-> "Request body must have a 'transactions' array"])
            /\ UNCHANGED <<results, bres, dpc, history, sent, dres, heap>>
       ELSE IF Len(b.v) > BatchLimit
       THEN /\ hpc' = Put(hpc, q, "responded")
            /\ response' = Put(response, q,
                  [status |-> 400, error |-> "Max 10 transactions per batch"])
            /\ UNCHANGED <<results, bres, dpc, history, sent, dres, heap>>
       ELSE /\ Enter(q, b.v, <<>>)
            /\ UNCHANGED response
    /\ UNCHANGED <<engineVars, now>>

\* The entry batchAnalyze pushes for transaction tx when diagnoseTxFailure
\* has ended as d.
EntryOf(d, tx) ==
    IF d.ended = "returned" THEN [success |-> TRUE, result |-> d.result]
    ELSE [success |-> FALSE, error |-> d.error, tx |-> tx]

\* batchAnalyze resumes after `await diagnoseTxFailure(tx)`: it pushes the
\* entry and goes round the loop.
Continue(q) ==
    /\ kind[q] = "batch" /\ hpc[q] = "running"
    /\ dres[q].ended \in {"returned", "threw"}
    /\ Enter(q, body[q].v,
             Append(results[q], EntryOf(dres[q], body[q].v[Len(results[q]) + 1])))
    /\ UNCHANGED <<kind, body, response, engineVars, now>>

\* The POST /batch handler resumes after `await batchAnalyze(transactions)`
\* and responds: the results, or the catch block's 500.
Respond(q) ==
    /\ kind[q] = "batch" /\ hpc[q] = "settled"
    /\ hpc' = Put(hpc, q, "responded")
    /\ response' = Put(response, q,
          IF bres[q].ended = "returned"
          THEN BatchResponse(bres[q].results, bres[q].summary)
          ELSE ErrorResponse(bres[q].error))
    /\ UNCHANGED <<kind, body, results, bres, dpc, history, sent, dres, heap,
                   engineVars, now>>

\* POST /diagnose arrives with req.body = b and is served as q.
ReceiveDiagnose(q, b) ==
    /\ hpc[q] = "idle"
    /\ kind' = Put(kind, q, "diagnose")
    /\ body' = Put(body, q, b)
    /\ IF ~Truthy(b) \/ b.t \notin {"object", "array"}
       THEN /\ hpc' = Put(hpc, q, "responded")
            /\ response' = Put(response, q,
                  [status |-> 400,
                   error |-> "Request body must be a transaction data object",
                   example |-> DiagnoseExample])
            /\ UNCHANGED <<dpc, history, sent, dres, heap>>
       ELSE IF ToStrThrows(Or(Get(PropsOf(b), "hash"), Str("unknown")))
       THEN /\ hpc' = Put(hpc, q, "responded")
            /\ response' = Put(response, q, ErrorResponse(ConvertError))
            /\ UNCHANGED <<dpc, history, sent, dres, heap>>
       ELSE /\ hpc' = Put(hpc, q, "running")
            /\ Start(q, b)
            /\ UNCHANGED response
    /\ UNCHANGED <<results, bres, engineVars, now>>

\* The POST /diagnose handler resumes after `await diagnoseTxFailure(txData)`
\* and responds: the diagnosis, or the catch block's 500.
DiagnoseRespond(q) ==
    /\ kind[q] = "diagnose" /\ hpc[q] = "running"
    /\ dres[q].ended \in {"returned", "threw"}
    /\ hpc' = Put(hpc, q, "responded")
    /\ response' = Put(response, q,
          IF dres[q].ended = "returned"
          THEN DiagnoseResponse(body[q], dres[q].result, now)
          ELSE ErrorResponse(dres[q].error))
    /\ UNCHANGED <<kind, body, results, bres, dpc, history, sent, dres, heap,
                   engineVars, now>>

\* A caller calls interactiveDiagnosis(tx), as call q.
InteractiveCall(q, tx) ==
    /\ hpc[q] = "idle"
    /\ kind' = Put(kind, q, "interactive")
    /\ body' = Put(body, q, tx)
    /\ hpc' = Put(hpc, q, "running")
    /\ Start(q, tx)
    /\ UNCHANGED <<response, results, bres, engineVars, now>>

\* interactiveDiagnosis resumes after `await diagnoseTxFailure(txData)`: it
\* prints the report and returns the result, or raises the diagnosis's error.
InteractiveReturn(q) ==
    /\ kind[q] = "interactive" /\ hpc[q] = "running"
    /\ dres[q].ended \in {"returned", "threw"}
    /\ hpc' = Put(hpc, q, "responded")
    /\ response' = Put(response, q,
          IF dres[q].ended = "returned"
          THEN [status |-> 0, returned |-> dres[q].result]
          ELSE [status |-> 0, raised |-> dres[q].error])
    /\ UNCHANGED <<kind, body, results, bres, dpc, history, sent, dres, heap,
                   engineVars, now>>

\* The log entry of a request that was rejected with error e.
Rejected(request, e) ==
    [messages |-> request.messages, outcome |-> "rejected", error |-> e]

\* Mutant of Reject: a rejected request is sent again.
RejectRetries(q, e) ==
    /\ dpc[q] \in 1..3
    /\ Failures < MaxFailures
    /\ sent' = Put(sent, q, Append([sent[q] EXCEPT ![dpc[q]] = Rejected(@, e)],
                                   [messages |-> history[q], outcome |-> "pending"]))
    /\ UNCHANGED <<kind, body, hpc, response, results, bres, dpc, history, dres,
                   heap, engineVars, now>>

\* The request q awaits is rejected with error e: diagnoseTxFailure raises e.
Reject(q, e) ==
    /\ dpc[q] \in 1..3
    /\ Failures < MaxFailures
    /\ sent' = Put(sent, q, [sent[q] EXCEPT ![dpc[q]] = Rejected(@, e)])
    /\ dpc' = Put(dpc, q, 0)
    /\ dres' = Put(dres, q, [ended |-> "threw", error |-> e])
    /\ UNCHANGED <<kind, body, hpc, response, results, bres, history, heap,
                   engineVars, now>>

\* The request q awaits is answered with an empty content array:
\* response.content[0].text raises.
ResolveEmpty(q) ==
    /\ dpc[q] \in 1..3
    /\ Failures < MaxFailures
    /\ sent' = Put(sent, q, [sent[q] EXCEPT ![dpc[q]].outcome = "answered"])
    /\ dpc' = Put(dpc, q, 0)
    /\ dres' = Put(dres, q, [ended |-> "threw", error |-> EmptyContentError])
    /\ UNCHANGED <<kind, body, hpc, response, results, bres, history, heap,
                   engineVars, now>>

\* The request q awaits is answered with a text: diagnoseTxFailure pushes it
\* and the next prompt and sends the next request, or, after the third
\* answer, returns.
Resolve(q) ==
    /\ dpc[q] \in 1..3
    /\ LET answered == [sent[q] EXCEPT ![dpc[q]].outcome = "answered"]
           extended == history[q] \o <<Msg("assistant", Replies[dpc[q]]),
                                       Msg("user", UserPrompts[dpc[q] + 1])>>
       IN  IF dpc[q] < 3
           THEN /\ history' = Put(history, q, extended)
                /\ sent' = Put(sent, q, Append(answered,
                                 [messages |-> extended, outcome |-> "pending"]))
                /\ dpc' = Put(dpc, q, dpc[q] + 1)
                /\ UNCHANGED dres
           ELSE /\ sent' = Put(sent, q, answered)
                /\ dpc' = Put(dpc, q, 0)
                /\ dres' = Put(dres, q,
                      [ended |-> "returned",
                       result |-> diagnoseResult(dres[q].ctx, history[q], Replies[3])])
                /\ UNCHANGED history
    /\ UNCHANGED <<kind, body, hpc, response, results, bres, heap, engineVars, now>>

\* q's response has been delivered, or its call has ended.
Close(q) ==
    /\ hpc[q] = "responded"
    /\ kind' = Put(kind, q, "none")
    /\ body' = Put(body, q, Undefined)
    /\ hpc' = Put(hpc, q, "idle")
    /\ response' = Put(response, q, NoResponse)
    /\ results' = Put(results, q, <<>>)
    /\ bres' = Put(bres, q, NotEnded)
    /\ dpc' = Put(dpc, q, 0)
    /\ history' = Put(history, q, <<>>)
    /\ sent' = Put(sent, q, <<>>)
    /\ dres' = Put(dres, q, NotEnded)
    /\ UNCHANGED <<heap, engineVars, now>>

InitBatch == Init /\ txData = NoProps

NextBatch ==
    \/ \E q \in Reqs, b \in Bodies : ReceiveBatch(q, b)
    \/ \E q \in Reqs, b \in DiagnoseBodies : ReceiveDiagnose(q, b)
    \/ \E q \in Reqs, tx \in InteractiveTxs : InteractiveCall(q, tx)
    \/ \E q \in Reqs : Resolve(q)
    \/ \E q \in Reqs, e \in ApiErrors : Reject(q, e)
    \/ \E q \in Reqs : ResolveEmpty(q)
    \/ \E q \in Reqs : Continue(q)
    \/ \E q \in Reqs : Respond(q)
    \/ \E q \in Reqs : DiagnoseRespond(q)
    \/ \E q \in Reqs : InteractiveReturn(q)
    \/ \E q \in Reqs : Close(q)
    \/ Tick

SpecBatch == InitBatch /\ [][NextBatch]_vars

-----------------------------------------------------------------------------
(* The conversation of one diagnosis.                                      *)

\* Message j of a history is the user's for odd j and the assistant's for
\* even j.
Alternating(msgs) ==
    \A j \in 1..Len(msgs) :
        msgs[j].role = IF j % 2 = 1 THEN "user" ELSE "assistant"

\* Request k of q's diagnosis carries 2k - 1 alternating messages: all those
\* of request k - 1, the answer to request k - 1, and the next prompt.
CarriesEarlierTurns(q, k) ==
    /\ Len(sent[q][k].messages) = 2 * k - 1
    /\ Alternating(sent[q][k].messages)
    /\ sent[q][k].messages[2 * k - 1].content = UserPrompts[k]
    /\ k > 1 =>
        /\ SubSeq(sent[q][k].messages, 1, 2 * k - 3) = sent[q][k - 1].messages
        /\ sent[q][k].messages[2 * k - 2].content = Replies[k - 1]

\* How the diagnosis that sent q's logged requests ended, once it has ended:
\* diagnoseTxFailure's outcome, or the entry batchAnalyze made of it.
Ended(q) ==
    IF dres[q].ended \in {"returned", "threw"} THEN dres[q]
    ELSE IF results[q][Len(results[q])].success
    THEN [ended |-> "returned", result |-> results[q][Len(results[q])].result]
    ELSE [ended |-> "threw", error |-> results[q][Len(results[q])].error]

\* The requests of q's diagnosis are three at most, sequential and
\* cumulative, and a rejected one ends the diagnosis with its error.
ThreeSequentialRequests(q) ==
    /\ Len(sent[q]) <= 3
    /\ \A k \in 1..Len(sent[q]) :
          /\ CarriesEarlierTurns(q, k)
          /\ k < Len(sent[q]) => sent[q][k].outcome = "answered"
    /\ dpc[q] # 0 =>
          Len(sent[q]) = dpc[q] /\ sent[q][dpc[q]].outcome = "pending"
    /\ (dpc[q] = 0 /\ sent[q] # <<>>) =>
          /\ sent[q][Len(sent[q])].outcome # "pending"
          /\ Ended(q).ended = "returned" =>
                (Len(sent[q]) = 3 /\ sent[q][3].outcome = "answered")
          /\ sent[q][Len(sent[q])].outcome = "rejected" =>
                /\ Ended(q).ended = "threw"
                /\ Ended(q).error = sent[q][Len(sent[q])].error
    /\ dres[q].ended = "returned" => Len(sent[q]) = 3

\* C13: diagnoseTxFailure sends exactly three model requests, one after
\* another: a request is sent only when every earlier one has been answered,
\* and it carries all earlier turns in order (1, 3 and 5 messages).  There is
\* no retry: a rejected request is the last one, and the diagnosis fails with
\* the error of the rejection.  This holds of every diagnosis, whichever of
\* batchAnalyze, POST /diagnose and interactiveDiagnosis called it and
\* whatever another request does meanwhile.
C13_ThreeSequentialRequests == \A q \in Reqs : ThreeSequentialRequests(q)

\* A diagnosis returned after three answered requests with histories of 1, 3
\* and 5 messages, in a batch whose first diagnosis failed, while another
\* request awaits an answer of the model.
C13_Witness ==
    \E q \in Reqs :
        /\ dres[q].ended = "returned"
        /\ Len(sent[q]) = 3
        /\ \A k \in 1..3 : Len(sent[q][k].messages) = 2 * k - 1
        /\ sent[q][3].messages[2].content = dres[q].result.diagnosis
        /\ sent[q][3].messages[4].content = dres[q].result.codeFix
        /\ results[q] # <<>> /\ ~results[q][1].success
        /\ \E p \in Reqs \ {q} : dpc[p] # 0

-----------------------------------------------------------------------------
(* What a batch returns.                                                   *)

\* The POST /batch handler accepts q's body: an array of 1 to BatchLimit
\* elements.
ValidBatch(q) ==
    kind[q] = "batch" /\ body[q].t = "array" /\ Len(body[q].v) \in 1..BatchLimit

\* Entry e is the one batchAnalyze makes for transaction tx: the diagnosis of
\* tx's context, built at some reading of the clock so far, or the failure
\* with tx itself.
EntryMatches(e, tx) ==
    IF e.success
    THEN /\ ~Nullish(tx)
         /\ SameButTimestamp([threw |-> FALSE,
                              value |-> e.result.transactionContext],
                             buildTransactionContext(PropsOf(tx), heap, now))
         /\ \E t \in 0..now :
               e.result.transactionContext.timestamp = timestampOf(PropsOf(tx), t)
         /\ e.result.errorCategory = e.result.transactionContext.errorCategory
    ELSE e.tx = tx

RECURSIVE SumOver(_, _)
\* The sum of f over the set S of arguments.
SumOver(f, S) ==
    IF S = {} THEN 0
    ELSE LET c == CHOOSE x \in S : TRUE IN f[c] + SumOver(f, S \ {c})

\* The summary's counts fit the batch txs: total is the input length,
\* analyzed and failed add up to it, and the category counts add up to
\* analyzed.
SummaryAddsUp(summary, txs) ==
    /\ summary.total = Len(txs)
    /\ summary.analyzed + summary.failed = summary.total
    /\ SumOver(summary.categorySummary, DOMAIN summary.categorySummary)
          = summary.analyzed

\* batchAnalyze, called for q's transactions, has made the entries of the
\* transactions so far in input order, and once it has ended it has returned
\* one entry per transaction with a summary that adds up.
BatchIsolated(q) ==
    /\ \A j \in 1..Len(results[q]) :
          EntryMatches(results[q][j], body[q].v[j])
    /\ hpc[q] \in {"settled", "responded"} =>
          /\ bres[q].ended = "returned"
          /\ Len(bres[q].results) = Len(body[q].v)
          /\ bres[q].results = results[q]
          /\ SummaryAddsUp(bres[q].summary, body[q].v)

\* C15: batchAnalyze processes the transactions one at a time in input order
\* and isolates failures: whatever one transaction does, every later one is
\* processed and batchAnalyze returns; on return results has one entry per
\* input transaction in input order, and the summary's counts add up.
C15_BatchIsolated == \A q \in Reqs : ValidBatch(q) => BatchIsolated(q)

\* q's POST /batch has been answered as the handler promises: 400 and no
\* call of batchAnalyze for a body it refuses, and otherwise one result per
\* submitted transaction in submission order.
BatchEndpoint(q) ==
    /\ ~ValidBatch(q) =>
          /\ hpc[q] = "responded" /\ response[q].status = 400
          /\ sent[q] = <<>> /\ results[q] = <<>>
          /\ dres[q] = NotEnded /\ bres[q] = NotEnded
    /\ (hpc[q] = "responded" /\ ValidBatch(q)) =>
          /\ response[q].status = 200
          /\ Len(response[q].results) = Len(body[q].v)
          /\ \A j \in 1..Len(body[q].v) :
                IF results[q][j].success
                THEN response[q].results[j].hash =
                        Or(Get(PropsOf(body[q].v[j]), "hash"), Str("N/A"))
                ELSE response[q].results[j].tx = body[q].v[j]

\* C12: POST /batch answers 400 without invoking batchAnalyze (no model
\* request is made) when transactions is not an array, is empty or has more
\* than 10 elements; for 1 to 10 elements the response carries exactly one
\* result per submitted transaction, in submission order.
C12_BatchEndpoint == \A q \in Reqs : kind[q] = "batch" => BatchEndpoint(q)

=============================================================================
